---- MODULE Spec2Model ----
(***************************************************************************)
(* Model of the multi-port web server supervisor of bevy_webgate:          *)
(* WebServerManager (src/src/server/manager.rs), WebServer and its accept  *)
(* loop (src/src/server/mod.rs), ServerStatus (status.rs), TaskStore       *)
(* (task_store.rs) and ConnectionTracker (connection_tracker.rs).          *)
(*                                                                         *)
(* Time is kept relatively: next_retry_time holds the seconds that remain  *)
(* until the stored Instant is reached, and every monitor keeps the        *)
(* seconds elapsed since its start_time.  Tick lets TickSeconds pass.      *)
(* A task handle that is dropped cancels its task, so a task is alive      *)
(* exactly while its entry sits in the TaskStore of a record of the map.   *)
(***************************************************************************)
EXTENDS Integers, Sequences, FiniteSets, TLC

VARIABLES servers, monitors, awaited, dirty, busy, quiet, lastOp, tracker, store

vars == <<servers, monitors, awaited, dirty, busy, quiet, lastOp, tracker, store>>

----------------------------------------------------------------------------
(* Program constants *)

MAX_RETRY_ATTEMPTS == 100

RETRY_DELAY_SECONDS == 10

----------------------------------------------------------------------------
(* Bounds of the model *)

MaxConnections == 1

MaxMonitors == 1

MaxPendingMonitors == 2

MaxStoreConnections == 2

MaxStoreTasks == 4

MaxFailedAttempts == 1

MaxTimeout == 1

TickSeconds == 10

MaxCalls == 4

MaxHandles == 3

Ports == {1, 2}

MainPorts == {1}

Ips == {"127.0.0.1", "0.0.0.0"}

Routers == {"r1", "r2"}
LiveIps == {"127.0.0.1"}
LiveRouters == {"r1"}

ConnIds == 0..(MaxConnections - 1)

Timeouts == {t * TickSeconds : t \in 0..MaxTimeout}

----------------------------------------------------------------------------
(* Values *)

None == "None"

NoTask == "NoTask"

NoTime == -1

NoConn == [pc |-> NoTask, service |-> None]

ErrBindFailed == "Failed to bind: Port is already in use"

ErrNoServer == "Configuration error in 'custom': No server found on port"

ErrMaxRetry == "Max retry attempts reached"

NoOp == [op |-> "none", port |-> 0, res |-> "none"]

Idle == [pc |-> "idle", port |-> 0, elapsed |-> 0, timeout |-> 0, active |-> 0,
         slept |-> FALSE]

Max(a, b) == IF a >= b THEN a ELSE b

Min(a, b) == IF a <= b THEN a ELSE b

----------------------------------------------------------------------------
(* ServerStatus *)

ServerStatus == {"Starting", "Running", "Failed", "Retrying", "Shutdown",
                 "ShuttingDown", "Stopped"}

shutdown_requested(status) == status \in {"Shutdown", "ShuttingDown"}

can_start_failed(status) == status \in {"Stopped", "Retrying", "Failed"}

can_start(status) == status \in {"Stopped", "Retrying"}

is_terminal(status) == status \in {"Stopped", "Failed"}

----------------------------------------------------------------------------
(* ConnectionTracker: the pair of atomic counters of one server *)

new_connection(s) == [s EXCEPT !.total = @ + 1, !.active = @ + 1]

guard_drop_total(s) == [s EXCEPT !.active = @ - 1, !.total = @ - 1]

guard_drop(s) == [s EXCEPT !.active = @ - 1]

(* The two atomic increments of ConnectionTracker::new_connection, which   *)
(* another thread can observe one without the other                        *)
total_fetch_add(c) == [c EXCEPT !.total = @ + 1]

active_fetch_add(c) == [c EXCEPT !.active = @ + 1]

(* A ConnectionTracker used on its own.  cells are the shared counter      *)
(* pairs (the two Arc<AtomicUsize>), handles the tracker values, each      *)
(* naming the cell it points to; pending counts the new_connection calls   *)
(* that are between their two increments; guards are the live              *)
(* ConnectionGuards; calls and drops count the completed new_connection    *)
(* calls and the guard releases.                                           *)
TrackerDefault == [active |-> 0, total |-> 0]

TrackerInit ==
    [cells |-> <<TrackerDefault>>, handles |-> <<1>>, pending |-> <<0>>,
     guards |-> {}, calls |-> 0, drops |-> 0]

(* a clone that starts from counters of its own *)
tracker_clone_default(t, h) ==
    [t EXCEPT !.cells = Append(@, TrackerDefault),
              !.pending = Append(@, 0),
              !.handles = Append(@, Len(t.cells) + 1)]

tracker_clone(t, h) == [t EXCEPT !.handles = Append(@, t.handles[h])]

tracker_active_connections(t, h) == t.cells[t.handles[h]].active

tracker_total_connections(t, h) == t.cells[t.handles[h]].total

----------------------------------------------------------------------------
(* TaskStore of one server: the Server entry (listener) and the            *)
(* Connection(id) entries (conns).  An entry holds the position of its     *)
(* task; "finished" is a task that returned and was not reaped yet.        *)

NoConns == [i \in ConnIds |-> NoConn]

contains_server_task(s) == s.listener # NoTask

cleanup_finished(s) ==
    [s EXCEPT !.listener = IF @ = "finished" THEN NoTask ELSE @]

finished_task_count(s) == IF s.listener = "finished" THEN 1 ELSE 0

task_insert_server(s) == [cleanup_finished(s) EXCEPT !.listener = "spawned"]

task_insert_connection(s, id, task) ==
    [cleanup_finished(s) EXCEPT !.conns[id] = task]

task_remove_connection(s, id) == [s EXCEPT !.conns[id] = NoConn]

task_clear(s) == [s EXCEPT !.listener = NoTask, !.service = None,
                           !.conns = NoConns]

----------------------------------------------------------------------------
(* WebServer *)

(* a record that starts with counters of an earlier one *)
WebServerNew_stale(ip, router) ==
    [ip |-> ip, router |-> router, status |-> "Stopped", last_error |-> None,
     retry_count |-> 1, next_retry_time |-> NoTime, listener |-> NoTask,
     service |-> None, conns |-> NoConns, active |-> 0, total |-> 1]

WebServerNew(ip, router) ==
    [ip |-> ip, router |-> router, status |-> "Stopped",
     last_error |-> None, retry_count |-> 0, next_retry_time |-> NoTime,
     listener |-> NoTask, service |-> None, conns |-> NoConns,
     active |-> 0, total |-> 0]

set_status(s, status) == [s EXCEPT !.status = status]

stop_keeps_tasks(s) == set_status(s, "Stopped")

stop(s) == set_status(task_clear(s), "Stopped")

graceful_shutdown_rec(s) == set_status(s, "Shutdown")

set_error(s, err) == [s EXCEPT !.last_error = err, !.status = "Failed"]

(* the previous error is kept *)
clear_error_keeps(s) == s

clear_error(s) == [s EXCEPT !.last_error = None]

(* the retry time is not consulted *)
should_retry_ignores_time(s) == s.retry_count < MAX_RETRY_ATTEMPTS

should_retry(s) ==
    IF s.retry_count >= MAX_RETRY_ATTEMPTS THEN FALSE
    ELSE IF s.next_retry_time # NoTime THEN s.next_retry_time <= 0
    ELSE TRUE

(* the cap tested with <= instead of < *)
schedule_retry_off_by_one(s) ==
    IF s.retry_count <= MAX_RETRY_ATTEMPTS
    THEN [s EXCEPT !.retry_count = @ + 1,
                   !.next_retry_time = RETRY_DELAY_SECONDS,
                   !.status = "Retrying"]
    ELSE set_error(s, ErrMaxRetry)

schedule_retry(s) ==
    IF s.retry_count < MAX_RETRY_ATTEMPTS
    THEN [s EXCEPT !.retry_count = @ + 1,
                   !.next_retry_time = RETRY_DELAY_SECONDS,
                   !.status = "Retrying"]
    ELSE set_error(s, ErrMaxRetry)

(* only the counter is reset *)
reset_retry_count_keeps_time(s) == [s EXCEPT !.retry_count = 0]

reset_retry_count(s) == [s EXCEPT !.retry_count = 0, !.next_retry_time = NoTime]

next_connection_id(s) == s.total

count_active_connections(s) == s.active

----------------------------------------------------------------------------
(* WebServerManager: queries *)

has_server(p) == p \in DOMAIN servers

ports == DOMAIN servers

len == Cardinality(DOMAIN servers)

active_connections(p) ==
    IF has_server(p) THEN count_active_connections(servers[p]) ELSE 0

(* an insert that forgets the other entries *)
map_insert_alone(m, p, s) == [q \in {p} |-> s]

map_insert(m, p, s) == [q \in (DOMAIN m) \cup {p} |-> IF q = p THEN s ELSE m[q]]

map_remove_all(m, p) == <<>>

map_remove(m, p) == [q \in (DOMAIN m) \ {p} |-> m[q]]

test_bind(p) == ~busy[p]

IsBindError(err) == err = ErrBindFailed

----------------------------------------------------------------------------
(* TaskStore alone: a map from task identities to task handles.  A handle  *)
(* is the number of the task and whether the task has finished; task 0 is  *)
(* no entry.  next numbers the tasks that are spawned and reaped counts    *)
(* the entries that were reaped.                                           *)

TaskTypes ==
    {<<"Server", 0>>} \cup {<<"Connection", id>> : id \in 0..(MaxStoreConnections - 1)}

NoEntry == [task |-> 0, fin |-> FALSE]

StoreInit == [entries |-> [k \in TaskTypes |-> NoEntry], next |-> 1, reaped |-> 0]

is_finished(t) == t.fin

store_keys(e) == {k \in DOMAIN e : e[k] # NoEntry}

store_finished_task_count(e) == Cardinality({k \in store_keys(e) : is_finished(e[k])})

store_cleanup_finished_tasks(e) ==
    [k \in DOMAIN e |-> IF e[k] # NoEntry /\ is_finished(e[k]) THEN NoEntry ELSE e[k]]

(* the new handle is stored without reaping *)
store_insert_without_cleanup(e, k, t) == [e EXCEPT ![k] = t]

store_insert(e, k, t) == [store_cleanup_finished_tasks(e) EXCEPT ![k] = t]

store_remove(e, k) == [e EXCEPT ![k] = NoEntry]

Free == awaited.pc = "idle"

----------------------------------------------------------------------------
(* Recording the step just taken: the operation, its port, what it returned *)

Op(name, p, res) == [op |-> name, port |-> p, res |-> res]

Init ==
    /\ servers = <<>>
    /\ monitors = [p \in Ports |-> <<>>]
    /\ awaited = Idle
    /\ dirty = TRUE
    /\ busy = [p \in Ports |-> FALSE]
    /\ quiet = FALSE
    /\ lastOp = NoOp
    /\ tracker = TrackerInit
    /\ store = StoreInit

----------------------------------------------------------------------------
(* WebServerManager: the caller's operations.  Each is called through the  *)
(* resource's mutable handle, which marks the resource changed (dirty).    *)

(* a failed probe that records the error and schedules no retry *)
add_server_record_no_retry(ip, router, probe_ok) ==
    IF probe_ok THEN WebServerNew(ip, router)
    ELSE set_error(WebServerNew(ip, router), ErrBindFailed)

add_server_record(ip, router, probe_ok) ==
    IF probe_ok THEN WebServerNew(ip, router)
    ELSE schedule_retry(set_error(WebServerNew(ip, router), ErrBindFailed))

(* add_server keyed by (ip, port) instead of the port alone *)
add_server_keyed_by_ip(p, ip, router) ==
    /\ Free /\ ~quiet
    /\ IF has_server(p) /\ servers[p].ip = ip
       THEN /\ servers' = servers
            /\ lastOp' = Op("add_server", p, "ServerAlreadyRunning")
       ELSE /\ servers' = map_insert(servers, p,
                              add_server_record(ip, router, test_bind(p)))
            /\ lastOp' = Op("add_server", p, "Ok")
    /\ dirty' = TRUE
    /\ UNCHANGED <<monitors, awaited, busy, quiet, tracker, store>>

add_server(p, ip, router) ==
    /\ Free /\ ~quiet
    /\ IF has_server(p)
       THEN /\ servers' = servers
            /\ lastOp' = Op("add_server", p, "ServerAlreadyRunning")
       ELSE /\ servers' = map_insert(servers, p,
                              add_server_record(ip, router, test_bind(p)))
            /\ lastOp' = Op("add_server", p, "Ok")
    /\ dirty' = TRUE
    /\ UNCHANGED <<monitors, awaited, busy, quiet, tracker, store>>

remove_server_map_keeps(m, p) == m

remove_server_map(m, p) == IF p \in DOMAIN m THEN map_remove(m, p) ELSE m

remove_server(p) ==
    /\ Free /\ ~quiet
    /\ servers' = remove_server_map(servers, p)
    /\ lastOp' = Op("remove_server", p, "none")
    /\ dirty' = TRUE
    /\ UNCHANGED <<monitors, awaited, busy, quiet, tracker, store>>

stop_server(p) ==
    /\ Free /\ ~quiet
    /\ servers' = IF has_server(p) THEN [servers EXCEPT ![p] = stop(@)]
                  ELSE servers
    /\ lastOp' = Op("stop_server", p, "none")
    /\ dirty' = TRUE
    /\ UNCHANGED <<monitors, awaited, busy, quiet, tracker, store>>

stop_all ==
    /\ Free /\ ~quiet
    /\ servers' = <<>>
    /\ lastOp' = Op("stop_all", 0, "none")
    /\ dirty' = TRUE
    /\ UNCHANGED <<monitors, awaited, busy, quiet, tracker, store>>

(* the status is not looked at *)
graceful_shutdown_map_always(m, p) ==
    IF p \in DOMAIN m THEN [m EXCEPT ![p] = graceful_shutdown_rec(@)] ELSE m

graceful_shutdown_map(m, p) ==
    IF p \in DOMAIN m /\ m[p].status # "ShuttingDown"
    THEN [m EXCEPT ![p] = graceful_shutdown_rec(@)]
    ELSE m

graceful_shutdown(p) ==
    /\ Free /\ ~quiet
    /\ servers' = graceful_shutdown_map(servers, p)
    /\ lastOp' = Op("graceful_shutdown", p, "none")
    /\ dirty' = TRUE
    /\ UNCHANGED <<monitors, awaited, busy, quiet, tracker, store>>

NewMonitor(timeout) == [elapsed |-> 0, timeout |-> timeout]

(* the monitor is spawned without looking the port up *)
graceful_shutdown_with_timeout_unchecked(p, timeout, cap) ==
    /\ Free /\ ~quiet
    /\ Len(monitors[p]) < cap
    /\ servers' = graceful_shutdown_map(
                      [q \in DOMAIN servers |->
                          IF q = p THEN set_status(servers[q], "ShuttingDown")
                          ELSE servers[q]], p)
    /\ monitors' = [monitors EXCEPT ![p] = Append(@, NewMonitor(timeout))]
    /\ lastOp' = Op("graceful_shutdown_with_timeout", p, "none")
    /\ dirty' = TRUE
    /\ UNCHANGED <<awaited, busy, quiet, tracker, store>>

(* cap bounds the monitor tasks that are pending on one port *)
graceful_shutdown_with_timeout_upto(p, timeout, cap) ==
    /\ Free /\ ~quiet
    /\ Len(monitors[p]) < cap
    /\ IF ~has_server(p)
       THEN UNCHANGED <<servers, monitors>>
       ELSE /\ servers' = graceful_shutdown_map(
                              [servers EXCEPT ![p] = set_status(@, "ShuttingDown")], p)
            /\ monitors' = [monitors EXCEPT ![p] = Append(@, NewMonitor(timeout))]
    /\ lastOp' = Op("graceful_shutdown_with_timeout", p, "none")
    /\ dirty' = TRUE
    /\ UNCHANGED <<awaited, busy, quiet, tracker, store>>

graceful_shutdown_with_timeout(p, timeout) ==
    graceful_shutdown_with_timeout_upto(p, timeout, MaxMonitors)

(* the record replaced by a new one instead of updated in place *)
set_router_reinserts(p, router) ==
    /\ Free /\ ~quiet
    /\ servers' = IF has_server(p)
                  THEN [servers EXCEPT ![p] = WebServerNew(@.ip, router)]
                  ELSE servers
    /\ lastOp' = Op("set_router", p, "none")
    /\ dirty' = TRUE
    /\ UNCHANGED <<monitors, awaited, busy, quiet, tracker, store>>

set_router(p, router) ==
    /\ Free /\ ~quiet
    /\ servers' = IF has_server(p) THEN [servers EXCEPT ![p].router = router]
                  ELSE servers
    /\ lastOp' = Op("set_router", p, "none")
    /\ dirty' = TRUE
    /\ UNCHANGED <<monitors, awaited, busy, quiet, tracker, store>>

(* start_server: the result and the map it leaves *)
(* the existing listener task entry is not looked at *)
start_server_result_unchecked(m, p) ==
    IF p \notin DOMAIN m THEN "ServerNotFound" ELSE "Ok"

start_server_result(m, p) ==
    IF p \in DOMAIN m /\ contains_server_task(m[p]) THEN "ServerAlreadyRunning"
    ELSE IF p \notin DOMAIN m THEN "ServerNotFound"
    ELSE "Ok"

start_server_map(m, p) ==
    IF start_server_result(m, p) = "Ok"
    THEN [m EXCEPT ![p] =
            task_insert_server(set_status(clear_error(@), "Starting"))]
    ELSE m

start_server(p) ==
    /\ Free /\ ~quiet
    /\ servers' = start_server_map(servers, p)
    /\ lastOp' = Op("start_server", p, start_server_result(servers, p))
    /\ dirty' = TRUE
    /\ UNCHANGED <<monitors, awaited, busy, quiet, tracker, store>>

----------------------------------------------------------------------------
(* The periodic systems *)

cleanup_finished_tasks ==
    /\ Free
    /\ servers' = [p \in DOMAIN servers |-> cleanup_finished(servers[p])]
    /\ dirty' = TRUE
    /\ lastOp' = NoOp
    /\ UNCHANGED <<monitors, awaited, busy, quiet, tracker, store>>

servers_to_retry ==
    {p \in DOMAIN servers :
        servers[p].status = "Retrying" /\ should_retry(servers[p])}

check_retry_servers ==
    /\ Free
    /\ dirty' = TRUE
    /\ lastOp' = NoOp
    /\ UNCHANGED <<servers, monitors, awaited, busy, quiet, tracker, store>>

servers_to_start_stopped_only ==
    {p \in DOMAIN servers :
        /\ servers[p].status = "Stopped"
        /\ ~contains_server_task(servers[p])}

servers_to_start_any_status ==
    {p \in DOMAIN servers : ~contains_server_task(servers[p])}

(* the task store is not consulted *)
servers_to_start_ignores_tasks ==
    {p \in DOMAIN servers :
        /\ can_start(servers[p].status)
        /\ (servers[p].status = "Retrying" => should_retry(servers[p]))}

servers_to_start ==
    {p \in DOMAIN servers :
        /\ can_start(servers[p].status)
        /\ ~contains_server_task(servers[p])
        /\ (servers[p].status = "Retrying" => should_retry(servers[p]))}

(* the server is left startable and without a listener entry *)
changed_start_untracked(s) == clear_error(s)

changed_start(s) ==
    task_insert_server(set_status(clear_error(set_status(s, "Starting")), "Starting"))

changed ==
    /\ Free
    /\ dirty
    /\ servers' = [p \in DOMAIN servers |->
                     IF p \in servers_to_start THEN changed_start(servers[p])
                     ELSE servers[p]]
    /\ dirty' = FALSE
    /\ lastOp' = NoOp
    /\ UNCHANGED <<monitors, awaited, busy, quiet, tracker, store>>

----------------------------------------------------------------------------
(* The listener task spawned by start_server: WebServer::run, the accept   *)
(* loop and the completion handling of the task                            *)

(* every error is final: no retry is scheduled *)
run_failed_no_retry(s, err) ==
    [set_error(s, err) EXCEPT !.listener = "finished", !.service = None]

run_failed(s, err) ==
    LET e == set_error(s, err)
        r == IF IsBindError(err) THEN schedule_retry(e) ELSE set_status(e, "Failed")
    IN  [r EXCEPT !.listener = "finished", !.service = None]

run_returned_ok(s) ==
    [set_status(s, "Running") EXCEPT !.listener = "finished", !.service = None]

accept_loop_top(s) ==
    IF shutdown_requested(s.status) THEN run_returned_ok(s)
    ELSE [s EXCEPT !.listener = "accepting"]

listener_bound(s) ==
    accept_loop_top([reset_retry_count(set_status(s, "Running"))
                        EXCEPT !.service = s.router])

ListenerRun(p, cap) ==
    /\ Free
    /\ has_server(p)
    /\ servers[p].listener = "spawned"
    /\ IF test_bind(p)
       THEN servers' = [servers EXCEPT ![p] = listener_bound(@)]
       ELSE /\ servers[p].retry_count < cap
            /\ servers' = [servers EXCEPT ![p] = run_failed(@, ErrBindFailed)]
    /\ dirty' = TRUE
    /\ lastOp' = NoOp
    /\ UNCHANGED <<monitors, awaited, busy, quiet, tracker, store>>

ListenerLoop(p) ==
    /\ Free
    /\ has_server(p)
    /\ servers[p].listener = "yielded"
    /\ servers' = [servers EXCEPT ![p] = accept_loop_top(@)]
    /\ dirty' = IF shutdown_requested(servers[p].status) THEN TRUE ELSE dirty
    /\ lastOp' = NoOp
    /\ UNCHANGED <<monitors, awaited, busy, quiet, tracker, store>>

NewConnectionTask(s) == [pc |-> "spawned", service |-> s.service]

accept_connection(s) ==
    [task_insert_connection(s, next_connection_id(s), NewConnectionTask(s))
        EXCEPT !.listener = "yielded"]

Accept(p) ==
    /\ Free
    /\ has_server(p)
    /\ servers[p].listener = "accepting"
    /\ next_connection_id(servers[p]) \in ConnIds
    /\ servers' = [servers EXCEPT ![p] = accept_connection(@)]
    /\ dirty' = TRUE
    /\ lastOp' = NoOp
    /\ UNCHANGED <<monitors, awaited, busy, quiet, tracker, store>>

(* an accept error ends the listener task like a failed start *)
AcceptError_fatal(p) ==
    /\ Free
    /\ has_server(p)
    /\ servers[p].listener = "accepting"
    /\ servers' = [servers EXCEPT ![p] = run_failed(@, ErrNoServer)]
    /\ dirty' = TRUE
    /\ lastOp' = NoOp
    /\ UNCHANGED <<monitors, awaited, busy, quiet, tracker, store>>

AcceptError(p) ==
    /\ Free
    /\ has_server(p)
    /\ servers[p].listener = "accepting"
    /\ servers' = [servers EXCEPT ![p].listener = "yielded"]
    /\ lastOp' = NoOp
    /\ UNCHANGED <<monitors, awaited, dirty, busy, quiet, tracker, store>>

----------------------------------------------------------------------------
(* The connection task spawned by the accept loop *)

connection_start(s, id) ==
    [guard_drop(new_connection(s)) EXCEPT !.conns[id].pc = "serving"]

ConnStart(p, id) ==
    /\ Free
    /\ has_server(p)
    /\ servers[p].conns[id].pc = "spawned"
    /\ servers' = [servers EXCEPT ![p] = connection_start(@, id)]
    /\ lastOp' = NoOp
    /\ UNCHANGED <<monitors, awaited, dirty, busy, quiet, tracker, store>>

ConnFinish(p, id) ==
    /\ Free
    /\ has_server(p)
    /\ servers[p].conns[id].pc = "serving"
    /\ servers' = [servers EXCEPT ![p] = task_remove_connection(@, id)]
    /\ dirty' = TRUE
    /\ lastOp' = NoOp
    /\ UNCHANGED <<monitors, awaited, busy, quiet, tracker, store>>

----------------------------------------------------------------------------
(* The monitor task spawned by graceful_shutdown_with_timeout              *)
(* (WebServerManager::shutdown_server).  One poll: the check and, when it  *)
(* ends the loop, the removal that follows it without a suspension point.  *)

monitor_done(m, p) ==
    IF has_server(p)
    THEN IF m.elapsed >= m.timeout THEN TRUE
         ELSE active_connections(p) = 0
    ELSE TRUE

SeqRemove(q, i) == [j \in 1..(Len(q) - 1) |-> IF j < i THEN q[j] ELSE q[j + 1]]

MonitorPoll(p, i) ==
    /\ Free
    /\ i \in 1..Len(monitors[p])
    /\ IF monitor_done(monitors[p][i], p)
       THEN /\ servers' = remove_server_map(servers, p)
            /\ monitors' = [monitors EXCEPT ![p] = SeqRemove(@, i)]
            /\ dirty' = TRUE
       ELSE UNCHANGED <<servers, monitors, dirty>>
    /\ lastOp' = NoOp
    /\ UNCHANGED <<awaited, busy, quiet, tracker, store>>

----------------------------------------------------------------------------
(* The awaited timed shutdown: WebServerManager::graceful_shutdown_server  *)
(* over WebServer::graceful_shutdown_with_timeout.  The caller holds the   *)
(* manager exclusively (&mut self) until it returns, so nothing else       *)
(* reaches the manager meanwhile (Free is false).                          *)

BoolStr(b) == IF b THEN "true" ELSE "false"

graceful_shutdown_server(p, timeout) ==
    /\ Free /\ ~quiet
    /\ IF has_server(p)
       THEN /\ servers' = [servers EXCEPT ![p] = graceful_shutdown_rec(@)]
            /\ awaited' = [pc |-> "wait_listener", port |-> p, elapsed |-> 0,
                           timeout |-> timeout, active |-> 0, slept |-> FALSE]
            /\ lastOp' = Op("graceful_shutdown_server", p, "pending")
       ELSE /\ lastOp' = Op("graceful_shutdown_server", p, "false")
            /\ UNCHANGED <<servers, awaited>>
    /\ dirty' = TRUE
    /\ UNCHANGED <<monitors, busy, quiet, tracker, store>>

(* the end of WebServer::graceful_shutdown_with_timeout *)
await_finish(p, active) ==
    /\ servers' = [servers EXCEPT ![p] = stop(@)]
    /\ awaited' = Idle
    /\ lastOp' = Op("graceful_shutdown_server", p, BoolStr(active = 0))

AwaitPoll ==
    /\ awaited.pc # "idle"
    /\ LET p == awaited.port
           s == servers[p]
           expired == awaited.elapsed >= awaited.timeout
           active == count_active_connections(s)
       IN  IF awaited.pc = "wait_listener" /\ ~expired /\ contains_server_task(s)
           THEN /\ awaited' = [awaited EXCEPT !.slept = TRUE]
                /\ lastOp' = Op("graceful_shutdown_server", p, "pending")
                /\ UNCHANGED servers
           ELSE IF active > 0 /\ ~expired
           THEN /\ awaited' = [awaited EXCEPT !.pc = "wait_conns", !.active = active,
                                              !.slept = TRUE]
                /\ lastOp' = Op("graceful_shutdown_server", p, "pending")
                /\ UNCHANGED servers
           ELSE await_finish(p, active)
    /\ UNCHANGED <<monitors, dirty, busy, quiet, tracker, store>>

----------------------------------------------------------------------------
(* The awaited shutdown of every server:                                   *)
(* WebServerManager::graceful_shutdown_all.  The caller holds the manager  *)
(* until it returns.  called is the local vector of the ports that were    *)
(* present at the call, todo the ports not awaited yet, results the local  *)
(* result map; after the return awaited keeps called and results, the      *)
(* value handed to the caller.                                             *)

AllAwait(p, timeout, results, todo, called) ==
    [pc |-> "all_wait_listener", port |-> p, elapsed |-> 0, timeout |-> timeout,
     active |-> 0, slept |-> FALSE, results |-> results, todo |-> todo,
     called |-> called]

AllReturned(results, called) ==
    [pc |-> "idle", port |-> 0, elapsed |-> 0, timeout |-> 0, active |-> 0,
     slept |-> FALSE, results |-> results, todo |-> {}, called |-> called]

(* the result of the port is not recorded *)
all_results_insert_skipped(results, p, completed_gracefully) == results

all_results_insert(results, p, completed_gracefully) ==
    [q \in (DOMAIN results) \cup {p} |->
        IF q = p THEN BoolStr(completed_gracefully) ELSE results[q]]

graceful_shutdown_all(timeout) ==
    /\ Free /\ ~quiet
    /\ servers' = [p \in DOMAIN servers |-> graceful_shutdown_rec(servers[p])]
    /\ IF DOMAIN servers = {}
       THEN /\ awaited' = AllReturned(<<>>, {})
            /\ lastOp' = Op("graceful_shutdown_all", 0, "returned")
       ELSE /\ \E p \in DOMAIN servers :
                  awaited' = AllAwait(p, timeout, <<>>, DOMAIN servers, DOMAIN servers)
            /\ lastOp' = Op("graceful_shutdown_all", 0, "pending")
    /\ dirty' = TRUE
    /\ UNCHANGED <<monitors, busy, quiet, tracker, store>>

AllPoll ==
    /\ awaited.pc \in {"all_wait_listener", "all_wait_conns"}
    /\ LET p == awaited.port
           s == servers[p]
           expired == awaited.elapsed >= awaited.timeout
           active == count_active_connections(s)
           results == all_results_insert(awaited.results, p, active = 0)
           todo == awaited.todo \ {p}
       IN  IF awaited.pc = "all_wait_listener" /\ ~expired /\ contains_server_task(s)
           THEN /\ awaited' = [awaited EXCEPT !.slept = TRUE]
                /\ lastOp' = Op("graceful_shutdown_all", 0, "pending")
                /\ UNCHANGED servers
           ELSE IF active > 0 /\ ~expired
           THEN /\ awaited' = [awaited EXCEPT !.pc = "all_wait_conns",
                                              !.active = active, !.slept = TRUE]
                /\ lastOp' = Op("graceful_shutdown_all", 0, "pending")
                /\ UNCHANGED servers
           ELSE IF todo # {}
           THEN /\ servers' = [servers EXCEPT ![p] = stop(@)]
                /\ \E q \in todo :
                      awaited' = AllAwait(q, awaited.timeout, results, todo,
                                          awaited.called)
                /\ lastOp' = Op("graceful_shutdown_all", 0, "pending")
           ELSE /\ servers' = <<>>
                /\ awaited' = AllReturned(results, awaited.called)
                /\ lastOp' = Op("graceful_shutdown_all", 0, "returned")
    /\ UNCHANGED <<monitors, dirty, busy, quiet, tracker, store>>

----------------------------------------------------------------------------
(* Time and the environment *)

tick_timer(t, d) == IF t = NoTime THEN NoTime ELSE Max(0, t - d)

tick_elapsed(m, d) == [m EXCEPT !.elapsed = Min(m.timeout, @ + d)]

TimeMatters ==
    \/ \E p \in DOMAIN servers : servers[p].next_retry_time > 0
    \/ \E p \in Ports : \E i \in 1..Len(monitors[p]) :
           monitors[p][i].elapsed < monitors[p][i].timeout
    \/ awaited.pc # "idle" /\ awaited.elapsed < awaited.timeout

Tick ==
    /\ TimeMatters
    /\ servers' = [p \in DOMAIN servers |->
                     [servers[p] EXCEPT !.next_retry_time = tick_timer(@, TickSeconds)]]
    /\ monitors' = [p \in Ports |->
                     [i \in 1..Len(monitors[p]) |->
                        tick_elapsed(monitors[p][i], TickSeconds)]]
    /\ awaited' = IF awaited.pc = "idle" THEN awaited
                  ELSE tick_elapsed(awaited, TickSeconds)
    /\ lastOp' = NoOp
    /\ UNCHANGED <<dirty, busy, quiet, tracker, store>>

holds_port(p) ==
    has_server(p) /\ servers[p].listener \in {"accepting", "yielded"}

Occupy(p) ==
    /\ ~quiet
    /\ ~busy[p]
    /\ ~holds_port(p)
    /\ busy' = [busy EXCEPT ![p] = TRUE]
    /\ lastOp' = NoOp
    /\ UNCHANGED <<servers, monitors, awaited, dirty, quiet, tracker, store>>

Release(p) ==
    /\ busy[p]
    /\ busy' = [busy EXCEPT ![p] = FALSE]
    /\ lastOp' = NoOp
    /\ UNCHANGED <<servers, monitors, awaited, dirty, quiet, tracker, store>>

Quiesce ==
    /\ Free /\ ~quiet
    /\ quiet' = TRUE
    /\ lastOp' = NoOp
    /\ UNCHANGED <<servers, monitors, awaited, dirty, busy, tracker, store>>

----------------------------------------------------------------------------
(* The ConnectionTracker on its own, called from several threads *)

server_vars == <<servers, monitors, awaited, dirty, busy, quiet, lastOp, store>>

PendingCalls ==
    LET RECURSIVE Sum(_)
        Sum(n) == IF n = 0 THEN 0 ELSE tracker.pending[n] + Sum(n - 1)
    IN  Sum(Len(tracker.pending))

(* new_connection up to and including total_count.fetch_add *)
NewConnectionBegin(h) ==
    /\ h \in 1..Len(tracker.handles)
    /\ tracker.calls + PendingCalls < MaxCalls
    /\ LET c == tracker.handles[h]
       IN  tracker' = [tracker EXCEPT !.cells[c] = total_fetch_add(@),
                                      !.pending[c] = @ + 1]
    /\ UNCHANGED server_vars

(* the rest of new_connection: active_count.fetch_add and the guard *)
NewConnectionEnd(c) ==
    /\ c \in 1..Len(tracker.cells)
    /\ tracker.pending[c] > 0
    /\ tracker' = [tracker EXCEPT
                      !.cells[c] = active_fetch_add(@),
                      !.pending[c] = @ - 1,
                      !.calls = @ + 1,
                      !.guards = @ \cup {[id |-> tracker.calls + 1, cell |-> c]}]
    /\ UNCHANGED server_vars

(* Drop for ConnectionGuard *)
GuardDrop(g) ==
    /\ g \in tracker.guards
    /\ tracker' = [tracker EXCEPT !.cells[g.cell] = guard_drop(@),
                                  !.guards = @ \ {g},
                                  !.drops = @ + 1]
    /\ UNCHANGED server_vars

(* ConnectionTracker::clone *)
TrackerClone(h) ==
    /\ h \in 1..Len(tracker.handles)
    /\ Len(tracker.handles) < MaxHandles
    /\ tracker' = tracker_clone(tracker, h)
    /\ UNCHANGED server_vars

----------------------------------------------------------------------------
(* Specifications *)

CallerStep(P, I, R) ==
    \/ \E p \in P, ip \in I, r \in R : add_server(p, ip, r)
    \/ \E p \in P : remove_server(p)
    \/ \E p \in P : stop_server(p)
    \/ stop_all
    \/ \E p \in P : graceful_shutdown(p)
    \/ \E p \in P, r \in R : set_router(p, r)
    \/ \E p \in P : start_server(p)

SystemStep ==
    \/ cleanup_finished_tasks
    \/ check_retry_servers
    \/ changed

ListenerStep(P, cap) ==
    \/ \E p \in P : ListenerRun(p, cap)
    \/ \E p \in P : ListenerLoop(p)
    \/ \E p \in P : Accept(p)
    \/ \E p \in P : AcceptError(p)

ConnectionStep(P) ==
    \/ \E p \in P, id \in ConnIds : ConnStart(p, id)
    \/ \E p \in P, id \in ConnIds : ConnFinish(p, id)

ShutdownStep(P) ==
    \/ \E p \in P, t \in Timeouts : graceful_shutdown_with_timeout(p, t)
    \/ \E p \in P, i \in 1..MaxMonitors : MonitorPoll(p, i)
    \/ \E p \in P, t \in Timeouts : graceful_shutdown_server(p, t)
    \/ AwaitPoll

EnvStep(P) ==
    \/ Tick
    \/ \E p \in P : Occupy(p)
    \/ \E p \in P : Release(p)

(* The whole supervisor on one port *)
Next ==
    \/ CallerStep(MainPorts, Ips, Routers)
    \/ SystemStep
    \/ ListenerStep(MainPorts, MaxFailedAttempts)
    \/ ConnectionStep(MainPorts)
    \/ ShutdownStep(MainPorts)
    \/ EnvStep(MainPorts)

Spec == Init /\ [][Next]_vars

(* One server with its listener, its connections and the monitors of its   *)
(* timed shutdowns; no caller awaits a shutdown                            *)
NextServe ==
    \/ CallerStep(MainPorts, Ips, LiveRouters)
    \/ SystemStep
    \/ ListenerStep(MainPorts, MaxFailedAttempts)
    \/ ConnectionStep(MainPorts)
    \/ \E p \in MainPorts, t \in Timeouts : graceful_shutdown_with_timeout(p, t)
    \/ \E p \in MainPorts, i \in 1..MaxMonitors : MonitorPoll(p, i)
    \/ EnvStep(MainPorts)

SpecServe == Init /\ [][NextServe]_vars

(* The map of the manager over two ports: registration, removal, start     *)
NextMap ==
    \/ CallerStep(Ports, Ips, Routers)
    \/ SystemStep
    \/ \E p \in Ports : ListenerRun(p, MaxFailedAttempts)
    \/ \E p \in Ports : Occupy(p)
    \/ \E p \in Ports : Release(p)

SpecMap == Init /\ [][NextMap]_vars

(* Repeated bind failures of one server up to the retry cap *)
NextRetry ==
    \/ \E p \in MainPorts, ip \in Ips, r \in Routers : add_server(p, ip, r)
    \/ \E p \in MainPorts : start_server(p)
    \/ SystemStep
    \/ \E p \in MainPorts : ListenerRun(p, MAX_RETRY_ATTEMPTS + 1)
    \/ EnvStep(MainPorts)

SpecRetry == Init /\ [][NextRetry]_vars

(* The supervisor on one port under fair scheduling of the periodic        *)
(* systems, the spawned tasks and the clock; the caller may stop for good  *)
NextLive ==
    \/ CallerStep(MainPorts, LiveIps, LiveRouters)
    \/ Quiesce
    \/ SystemStep
    \/ ListenerStep(MainPorts, MaxFailedAttempts)
    \/ ConnectionStep(MainPorts)
    \/ \E p \in MainPorts, t \in Timeouts : graceful_shutdown_with_timeout(p, t)
    \/ \E p \in MainPorts, i \in 1..MaxMonitors : MonitorPoll(p, i)
    \/ EnvStep(MainPorts)

Fairness ==
    /\ WF_vars(cleanup_finished_tasks)
    /\ WF_vars(check_retry_servers)
    /\ WF_vars(changed)
    /\ WF_vars(Tick)
    /\ \A p \in MainPorts : WF_vars(ListenerRun(p, MaxFailedAttempts))
    /\ \A p \in MainPorts : WF_vars(ListenerLoop(p))
    /\ \A p \in MainPorts, id \in ConnIds : WF_vars(ConnStart(p, id))
    /\ \A p \in MainPorts, i \in 1..MaxMonitors : WF_vars(MonitorPoll(p, i))

SpecLive == Init /\ [][NextLive]_vars /\ Fairness

(* The shutdown paths of one server without client traffic: the caller's   *)
(* operations, the periodic systems, the listener's bind, the monitors and *)
(* the awaited shutdown, and the clock                                     *)
NextShutdown ==
    \/ CallerStep(MainPorts, LiveIps, LiveRouters)
    \/ SystemStep
    \/ \E p \in MainPorts : ListenerRun(p, MaxFailedAttempts)
    \/ \E p \in MainPorts, t \in Timeouts :
          graceful_shutdown_with_timeout_upto(p, t, MaxPendingMonitors)
    \/ \E p \in MainPorts, i \in 1..MaxPendingMonitors : MonitorPoll(p, i)
    \/ \E p \in MainPorts, t \in Timeouts : graceful_shutdown_server(p, t)
    \/ AwaitPoll
    \/ Tick

SpecShutdown == Init /\ [][NextShutdown]_vars

(* Stopping every server at once on two ports: registration, start, the   *)
(* listeners and their connections, stop_all and the awaited               *)
(* graceful_shutdown_all, and the clock                                    *)
NextAll ==
    \/ \E p \in Ports, ip \in LiveIps, r \in LiveRouters : add_server(p, ip, r)
    \/ \E p \in Ports : start_server(p)
    \/ ListenerStep(Ports, MaxFailedAttempts)
    \/ ConnectionStep(Ports)
    \/ stop_all
    \/ \E t \in Timeouts : graceful_shutdown_all(t)
    \/ AllPoll
    \/ Tick

SpecAll == Init /\ [][NextAll]_vars

----------------------------------------------------------------------------
(* The task store alone: tasks are spawned and stored under an identity,   *)
(* finish on their own, are reaped, and are removed by identity            *)

store_frame == <<servers, monitors, awaited, dirty, busy, quiet, lastOp, tracker>>

StoreInsert(k) ==
    /\ store.next <= MaxStoreTasks
    /\ store' = [entries |-> store_insert(store.entries, k,
                                          [task |-> store.next, fin |-> FALSE]),
                 next |-> store.next + 1,
                 reaped |-> store.reaped + store_finished_task_count(store.entries)]
    /\ UNCHANGED store_frame

StoreTaskFinishes(k) ==
    /\ store.entries[k] # NoEntry
    /\ ~is_finished(store.entries[k])
    /\ store' = [store EXCEPT !.entries[k].fin = TRUE]
    /\ UNCHANGED store_frame

StoreCleanup ==
    /\ store' = [store EXCEPT
                     !.entries = store_cleanup_finished_tasks(@),
                     !.reaped = @ + store_finished_task_count(store.entries)]
    /\ UNCHANGED store_frame

StoreRemove(k) ==
    /\ store.entries[k] # NoEntry
    /\ store' = [store EXCEPT !.entries = store_remove(@, k)]
    /\ UNCHANGED store_frame

NextStore ==
    \/ \E k \in TaskTypes : StoreInsert(k)
    \/ \E k \in TaskTypes : StoreTaskFinishes(k)
    \/ StoreCleanup
    \/ \E k \in TaskTypes : StoreRemove(k)

SpecStore == Init /\ [][NextStore]_vars

----------------------------------------------------------------------------
(* The connection tracker alone *)
NextTracker ==
    \/ \E h \in 1..MaxHandles : NewConnectionBegin(h)
    \/ \E c \in 1..MaxHandles : NewConnectionEnd(c)
    \/ \E g \in tracker.guards : GuardDrop(g)
    \/ \E h \in 1..MaxHandles : TrackerClone(h)

SpecTracker == Init /\ [][NextTracker]_vars

(* Properties *)

(* C1: add_server on a port that is already a key of the map returns       *)
(* ServerAlreadyRunning and leaves the map and the existing record (ip,    *)
(* handler, status, last_error, retry bookkeeping, tasks) unchanged,       *)
(* whatever ip the rejected record carries: the port alone is the key.     *)
C1_DuplicateAddRejected ==
    [][\A p \in Ports, ip \in Ips, r \in Routers :
          (has_server(p) /\ add_server(p, ip, r)) =>
              /\ lastOp' = Op("add_server", p, "ServerAlreadyRunning")
              /\ servers' = servers
              /\ monitors' = monitors]_vars

C1_Witness ==
    \E p \in Ports :
        /\ lastOp = Op("add_server", p, "ServerAlreadyRunning")
        /\ has_server(p)
        /\ servers[p].listener # NoTask
        /\ servers[p].retry_count > 0

(* C2: a successful add_server on a port not in the map, whatever the      *)
(* bind probe found, makes has_server(port) true, adds exactly that port   *)
(* to ports(), raises len() by one and leaves every other record as it     *)
(* was; and len() is always the number of ports with has_server true.      *)
C2_AddInsertsOne ==
    /\ [](len = Cardinality({p \in Ports : has_server(p)}))
    /\ [][\A p \in Ports, ip \in Ips, r \in Routers :
            (~has_server(p) /\ add_server(p, ip, r)) =>
                /\ p \in DOMAIN servers'
                /\ DOMAIN servers' = ports \cup {p}
                /\ Cardinality(DOMAIN servers') = len + 1
                /\ \A q \in ports : servers'[q] = servers[q]]_vars

C2_Witness ==
    \E p \in Ports :
        /\ lastOp = Op("add_server", p, "Ok")
        /\ len = 2
        /\ busy[p]
        /\ \E q \in ports \ {p} : servers[q].listener # NoTask

(* C3: when the bind probe fails, add_server still returns Ok and the      *)
(* inserted record is Retrying with a last_error and a scheduled           *)
(* next_retry_time; when the probe succeeds the record is Stopped with no  *)
(* last_error and retry_count 0.                                           *)
C3_ProbeDecidesInitialStatus ==
    [][\A p \in Ports, ip \in Ips, r \in Routers :
          (~has_server(p) /\ add_server(p, ip, r)) =>
              /\ lastOp' = Op("add_server", p, "Ok")
              /\ p \in DOMAIN servers'
              /\ IF busy[p]
                 THEN /\ servers'[p].status = "Retrying"
                      /\ servers'[p].last_error # None
                      /\ servers'[p].next_retry_time # NoTime
                      /\ servers'[p].next_retry_time > 0
                 ELSE /\ servers'[p].status = "Stopped"
                      /\ servers'[p].last_error = None
                      /\ servers'[p].retry_count = 0]_vars

C3_Witness ==
    \E p \in Ports :
        /\ lastOp = Op("add_server", p, "Ok")
        /\ busy[p]
        /\ servers[p].status = "Retrying"

(* A failed start attempt of the server on p: the listener task that was   *)
(* spawned ends without having bound.                                      *)
FailedAttempt(p) ==
    /\ has_server(p)
    /\ p \in DOMAIN servers'
    /\ servers[p].listener = "spawned"
    /\ servers'[p].listener = "finished"

(* C4: the failed start attempt that brings retry_count to 100 leaves the  *)
(* server Failed with the error 'Max retry attempts reached'.              *)
C4_CapReachedMeansFailed ==
    [][\A p \in MainPorts :
          (FailedAttempt(p) /\ servers'[p].retry_count = MAX_RETRY_ATTEMPTS) =>
              /\ servers'[p].status = "Failed"
              /\ servers'[p].last_error = ErrMaxRetry]_vars

(* C5: retry_count never exceeds 100; a failed bind attempt below the cap  *)
(* raises it by exactly one and no failed attempt lowers it; it goes back  *)
(* to 0 only in the step in which a bind succeeds.                         *)
C5_RetryCount ==
    /\ [](\A p \in DOMAIN servers : servers[p].retry_count <= MAX_RETRY_ATTEMPTS)
    /\ [][\A p \in (DOMAIN servers) \cap (DOMAIN servers') :
            /\ FailedAttempt(p) =>
                  /\ servers'[p].retry_count >= servers[p].retry_count
                  /\ servers[p].retry_count < MAX_RETRY_ATTEMPTS =>
                        servers'[p].retry_count = servers[p].retry_count + 1
            /\ servers'[p].retry_count < servers[p].retry_count =>
                  /\ servers'[p].retry_count = 0
                  /\ servers[p].listener = "spawned"
                  /\ test_bind(p)
                  /\ servers'[p].status = "Running"]_vars

C5_Witness ==
    \E p \in MainPorts :
        /\ has_server(p)
        /\ servers[p].retry_count = MAX_RETRY_ATTEMPTS
        /\ servers[p].listener = "finished"

(* The caller has stopped acting and the server on p may start: it is      *)
(* Stopped, or Retrying below the cap, and no other process holds its port *)
Eligible(p) ==
    /\ quiet
    /\ has_server(p)
    /\ ~busy[p]
    /\ \/ servers[p].status = "Stopped"
       \/ /\ servers[p].status = "Retrying"
          /\ servers[p].retry_count < MAX_RETRY_ATTEMPTS

IsRunning(p) == has_server(p) /\ servers[p].status = "Running"

(* C6: under fair scheduling and with no caller action, every server that  *)
(* is Stopped, or Retrying with retry_count below 100, and whose port is   *)
(* free eventually reaches status Running.                                 *)
C6_EligibleEventuallyRunning ==
    \A p \in MainPorts : Eligible(p) ~> IsRunning(p)

(* No shutdown monitor spawned by graceful_shutdown_with_timeout is still  *)
(* polling the port p                                                      *)
NoPendingMonitor(p) == Len(monitors[p]) = 0

(* C6 (amended): under fair scheduling and with no caller action, every    *)
(* server that is Stopped, or Retrying with retry_count below 100, whose   *)
(* port is free and for whose port no monitor of a timed graceful shutdown *)
(* is pending, eventually reaches status Running.                          *)
C6_EligibleUnmonitoredEventuallyRunning ==
    \A p \in MainPorts : (Eligible(p) /\ NoPendingMonitor(p)) ~> IsRunning(p)

C6_Witness ==
    \E p \in MainPorts :
        /\ Eligible(p)
        /\ NoPendingMonitor(p)
        /\ servers[p].status = "Retrying"
        /\ servers[p].next_retry_time > 0
        /\ servers[p].listener = "finished"

(* C9: once graceful_shutdown_with_timeout has spawned a monitor for an    *)
(* existing port, the record on that port is eventually removed, and the   *)
(* poll of a monitor whose timeout has elapsed removes it in that very     *)
(* step, whether or not connections are still being served.                *)
C9_MonitorRemovesRecord ==
    /\ \A p \in MainPorts :
          (has_server(p) /\ ~NoPendingMonitor(p)) ~> ~has_server(p)
    /\ [][\A p \in MainPorts, i \in 1..MaxMonitors :
            (/\ MonitorPoll(p, i)
             /\ monitors[p][i].elapsed >= monitors[p][i].timeout) =>
                /\ p \notin DOMAIN servers'
                /\ Len(monitors'[p]) = Len(monitors[p]) - 1]_vars

C9_Witness ==
    \E p \in MainPorts : \E i \in 1..Len(monitors[p]) :
        /\ has_server(p)
        /\ monitors[p][i].timeout > 0
        /\ monitors[p][i].elapsed >= monitors[p][i].timeout
        /\ \E id \in ConnIds : servers[p].conns[id].pc = "serving"

(* C7: once a graceful shutdown has been requested for a server, its       *)
(* accept loop accepts no further connection.                              *)
C7_NoAcceptAfterShutdown ==
    [][\A p \in MainPorts :
          Accept(p) => ~shutdown_requested(servers[p].status)]_vars

(* A connection task of the server on p is serving its connection          *)
InFlight(p) == \E id \in ConnIds : servers[p].conns[id].pc = "serving"

(* C8: during a graceful shutdown the forced stop that drops the task      *)
(* handles happens before the deadline only when no connection task is     *)
(* still in flight, for the monitor's removal as for the awaited stop().   *)
C8_NoEarlyCancel ==
    [][\A p \in MainPorts :
          /\ \A i \in 1..MaxMonitors :
                (/\ MonitorPoll(p, i)
                 /\ has_server(p)
                 /\ p \notin DOMAIN servers'
                 /\ monitors[p][i].elapsed < monitors[p][i].timeout) =>
                    ~InFlight(p)
          /\ (/\ AwaitPoll
              /\ awaited.port = p
              /\ awaited' = Idle
              /\ awaited.elapsed < awaited.timeout) =>
                    ~InFlight(p)]_vars

(* C10: when the awaited graceful_shutdown_server(port, T) has returned,   *)
(* with true or with false, no server is registered on the port.           *)
C10_AbsentAfterAwaitedShutdown ==
    (/\ lastOp.op = "graceful_shutdown_server"
     /\ lastOp.res \in {"true", "false"}) => ~has_server(lastOp.port)

(* The awaited graceful_shutdown_server on p returns in this step          *)
AwaitReturns(p) ==
    /\ AwaitPoll
    /\ awaited.port = p
    /\ awaited' = Idle

(* C11: the awaited timed graceful shutdown of an existing server returns  *)
(* true exactly when no connection is still being served at its return,    *)
(* and false when it forces the stop on connections still being served.    *)
C11_TrueIffDrained ==
    [][\A p \in MainPorts :
          AwaitReturns(p) => (lastOp'.res = "true" <=> ~InFlight(p))]_vars

(* The server on p has been started, its listener holds the port, and no   *)
(* connection task exists for it                                           *)
StartedIdle(p) ==
    /\ has_server(p)
    /\ holds_port(p)
    /\ \A id \in ConnIds : servers[p].conns[id].pc = NoTask

(* C12: for a started server without connections a timed graceful         *)
(* shutdown completes at its first poll, before the timeout: the monitor's *)
(* poll removes the record and the awaited variant's poll returns, neither *)
(* stays pending until the deadline.                                       *)
C12_IdleServerShutsDownAtOnce ==
    [][\A p \in MainPorts :
          /\ \A i \in 1..MaxMonitors :
                (MonitorPoll(p, i) /\ StartedIdle(p)) => p \notin DOMAIN servers'
          /\ (/\ AwaitPoll
              /\ awaited.port = p
              /\ StartedIdle(p)
              /\ awaited.elapsed < awaited.timeout) => awaited' = Idle]_vars

(* C13: a connection accepted by a running listener is served with the     *)
(* handler the record holds at the time of the accept, so that after       *)
(* set_router the next accepted connection uses the new handler, and the   *)
(* step leaves the handlers of connections accepted earlier as they were.  *)
C13_NextAcceptUsesCurrentRouter ==
    [][\A p \in MainPorts :
          Accept(p) =>
              /\ servers'[p].conns[next_connection_id(servers[p])].service
                    = servers[p].router
              /\ \A id \in ConnIds \ {next_connection_id(servers[p])} :
                    servers'[p].conns[id] = servers[p].conns[id]]_vars

(* C14: set_router(port, r) changes only the handler of the record on that *)
(* port; its status, last_error, retry bookkeeping and tasks, the set of   *)
(* records and every other record stay as they were, and on an absent port *)
(* nothing changes and no record is created.                               *)
C14_SetRouterFrame ==
    [][\A p \in Ports, r \in Routers :
          set_router(p, r) =>
              /\ DOMAIN servers' = DOMAIN servers
              /\ \A q \in DOMAIN servers :
                    servers'[q] = IF q = p THEN [servers[q] EXCEPT !.router = r]
                                  ELSE servers[q]
              /\ monitors' = monitors]_vars

C14_Witness ==
    \E p \in Ports :
        /\ lastOp = Op("set_router", p, "none")
        /\ has_server(p)
        /\ len = 2
        /\ servers[p].router = "r2"
        /\ servers[p].status = "Retrying"
        /\ servers[p].listener = "finished"

(* C15: start_server(port) returns ServerNotFound on an absent port and    *)
(* ServerAlreadyRunning when the record already has a listener task entry, *)
(* changing nothing in both cases; otherwise it returns Ok, clears         *)
(* last_error, sets status Starting and registers the one listener task    *)
(* entry, leaving the other records as they were.                          *)
C15_StartServer ==
    [][\A p \in Ports :
          start_server(p) =>
              /\ monitors' = monitors
              /\ DOMAIN servers' = DOMAIN servers
              /\ \A q \in (DOMAIN servers) \ {p} : servers'[q] = servers[q]
              /\ IF ~has_server(p)
                 THEN /\ lastOp' = Op("start_server", p, "ServerNotFound")
                      /\ servers' = servers
                 ELSE IF servers[p].listener # NoTask
                 THEN /\ lastOp' = Op("start_server", p, "ServerAlreadyRunning")
                      /\ servers' = servers
                 ELSE /\ lastOp' = Op("start_server", p, "Ok")
                      /\ servers'[p].last_error = None
                      /\ servers'[p].status = "Starting"
                      /\ servers'[p].listener = "spawned"]_vars

C15_Witness ==
    \E p \in Ports :
        /\ lastOp = Op("start_server", p, "Ok")
        /\ servers[p].status = "Starting"
        /\ servers[p].retry_count > 0
        /\ servers[p].listener = "spawned"
        /\ len = 2

(* The number of task entries the manager m tracks for port p *)
tracked_tasks(m, p) ==
    IF p \in DOMAIN m
    THEN (IF m[p].listener = NoTask THEN 0 ELSE 1)
         + Cardinality({id \in ConnIds : m[p].conns[id].pc # NoTask})
    ELSE 0

(* C16: remove_server(port) on a present port deletes the record together  *)
(* with all its tracked tasks and leaves the other records untouched; on   *)
(* an absent port it changes nothing; it reports no error in either case.  *)
C16_RemoveServer ==
    [][\A p \in Ports :
          remove_server(p) =>
              /\ lastOp' = Op("remove_server", p, "none")
              /\ p \notin DOMAIN servers'
              /\ tracked_tasks(servers', p) = 0
              /\ DOMAIN servers' = (DOMAIN servers) \ {p}
              /\ \A q \in DOMAIN servers' : servers'[q] = servers[q]
              /\ monitors' = monitors
              /\ ~has_server(p) => servers' = servers]_vars

C16_Witness ==
    \E p \in Ports :
        /\ lastOp = Op("remove_server", p, "none")
        /\ ~has_server(p)
        /\ \E q \in Ports \ {p} :
              /\ has_server(q)
              /\ tracked_tasks(servers, q) = 1
              /\ servers[q].retry_count > 0

(* C17: stop_server(port) on a present port, whatever its status, leaves   *)
(* the record in the map with status Stopped and no tracked task, listener *)
(* and connection tasks alike, in the same step.                           *)
C17_StopServer ==
    [][\A p \in MainPorts :
          (has_server(p) /\ stop_server(p)) =>
              /\ DOMAIN servers' = DOMAIN servers
              /\ servers'[p].status = "Stopped"
              /\ tracked_tasks(servers', p) = 0
              /\ servers'[p].listener = NoTask
              /\ servers'[p].conns = NoConns]_vars

C17_Witness ==
    \E p \in MainPorts :
        /\ lastOp = Op("stop_server", p, "none")
        /\ has_server(p)
        /\ servers[p].status = "Stopped"
        /\ servers[p].total > 0
        /\ ~NoPendingMonitor(p)

(* C18: an add_server on a port from which an earlier registration was     *)
(* removed succeeds, with any ip, and the record it inserts carries        *)
(* nothing of the earlier registration: it has the given ip and handler,   *)
(* no tasks and zero connection counters, and the status and retry        *)
(* bookkeeping of a first registration (Stopped with retry_count 0 when    *)
(* the bind probe passes).                                                 *)
C18_ReAddIsFresh ==
    [][\A p \in MainPorts, ip \in Ips, r \in Routers :
          (~has_server(p) /\ add_server(p, ip, r)) =>
              /\ lastOp' = Op("add_server", p, "Ok")
              /\ p \in DOMAIN servers'
              /\ servers'[p].ip = ip
              /\ servers'[p].router = r
              /\ tracked_tasks(servers', p) = 0
              /\ servers'[p].service = None
              /\ servers'[p].active = 0
              /\ servers'[p].total = 0
              /\ IF test_bind(p)
                 THEN /\ servers'[p].status = "Stopped"
                      /\ servers'[p].retry_count = 0
                      /\ servers'[p].last_error = None
                      /\ servers'[p].next_retry_time = NoTime
                 ELSE /\ servers'[p].status = "Retrying"
                      /\ servers'[p].retry_count = 1]_vars

(* a second registration: the monitor of a timed shutdown requested for    *)
(* the earlier record of the port is still pending                         *)
C18_Witness ==
    \E p \in MainPorts :
        /\ lastOp = Op("add_server", p, "Ok")
        /\ ~NoPendingMonitor(p)
        /\ servers[p].ip = "0.0.0.0"
        /\ servers[p].status = "Stopped"
        /\ servers[p].retry_count = 0

(* C19: once N new_connection() calls have completed and M of the guards   *)
(* they returned have been released, in whatever order, the tracker reads  *)
(* active_connections() = N - M and total_connections() = N, and every     *)
(* clone of the tracker reads the same two counters.                       *)
C19_TrackerCounts ==
    \A h \in 1..Len(tracker.handles) :
        /\ PendingCalls = 0 =>
              /\ tracker_active_connections(tracker, h)
                    = tracker.calls - tracker.drops
              /\ tracker_total_connections(tracker, h) = tracker.calls
        /\ \A k \in 1..Len(tracker.handles) :
              /\ tracker_active_connections(tracker, h)
                    = tracker_active_connections(tracker, k)
              /\ tracker_total_connections(tracker, h)
                    = tracker_total_connections(tracker, k)

(* three calls, the first and the last guard released, read through clones *)
C19_Witness ==
    /\ PendingCalls = 0
    /\ tracker.calls = 3
    /\ tracker.drops = 2
    /\ \A g \in tracker.guards : g.id = 2
    /\ Len(tracker.handles) = MaxHandles
    /\ tracker_active_connections(tracker, MaxHandles) = 1

(* C20: under every interleaving of new_connection() calls and guard       *)
(* releases the counters satisfy active <= total at every instant, total   *)
(* never decreases, and a guard release leaves total as it was.            *)
C20_ActiveAtMostTotal ==
    /\ [](\A c \in 1..Len(tracker.cells) :
             tracker.cells[c].active <= tracker.cells[c].total)
    /\ [][/\ \A c \in 1..Len(tracker.cells) :
                tracker'.cells[c].total >= tracker.cells[c].total
          /\ \A g \in tracker.guards :
                GuardDrop(g) =>
                    tracker'.cells[g.cell].total = tracker.cells[g.cell].total]_vars

(* a call is between its two increments while guards are live and released *)
C20_Witness ==
    /\ PendingCalls > 0
    /\ tracker.drops > 0
    /\ tracker.guards # {}
    /\ tracker_active_connections(tracker, 1) < tracker_total_connections(tracker, 1)

(* The step changes the status of the record on p, which had the status    *)
(* st, and is not the step of a caller operation                           *)
AutomaticLeaves(p, st) ==
    /\ has_server(p)
    /\ p \in DOMAIN servers'
    /\ servers[p].status = st
    /\ servers'[p].status # st
    /\ lastOp' = NoOp

C22_ReconciliationStartsOnlyStartable ==
    [][changed =>
          /\ DOMAIN servers' = DOMAIN servers
          /\ \A p \in DOMAIN servers :
                servers'[p] # servers[p] =>
                    /\ servers[p].status \in {"Stopped", "Retrying"}
                    /\ servers[p].listener = NoTask
                    /\ servers'[p].status = "Starting"
                    /\ servers'[p].listener = "spawned"]_vars

(* the pass has just started a server that was Retrying *)
C22_Witness ==
    \E p \in MainPorts :
        /\ has_server(p)
        /\ ~dirty
        /\ lastOp = NoOp
        /\ servers[p].status = "Starting"
        /\ servers[p].listener = "spawned"
        /\ servers[p].retry_count > 0

(* C23: a reconciliation pass does something only when the manager has     *)
(* been mutated since the previous pass, and it leaves no server for a     *)
(* second pass to start: run again at once, the pass starts nothing and    *)
(* changes no record.                                                      *)
C23_ReconciliationIdempotent ==
    [][changed => (dirty /\ servers_to_start' = {})]_vars

(* the pass has just started a freshly added server *)
C23_Witness ==
    \E p \in MainPorts :
        /\ has_server(p)
        /\ ~dirty
        /\ lastOp = NoOp
        /\ servers_to_start = {}
        /\ servers[p].status = "Starting"
        /\ servers[p].listener = "spawned"
        /\ servers[p].retry_count = 0

(* C24: in every reachable state a server has a listener task entry        *)
(* exactly when its status is Starting, Running, Shutdown or ShuttingDown. *)
C24_ListenerIffActiveStatus ==
    \A p \in DOMAIN servers :
        contains_server_task(servers[p])
            <=> servers[p].status \in {"Starting", "Running", "Shutdown", "ShuttingDown"}

(* C25 as stated: in every reachable state next_retry_time is set only     *)
(* while the status is Retrying.                                           *)
C25_RetryTimeOnlyWhileRetrying ==
    \A p \in DOMAIN servers :
        servers[p].next_retry_time # NoTime => servers[p].status = "Retrying"

(* a step that assigns a new retry time to the server on port p *)
RetryTimeAssigned(p) ==
    /\ has_server(p) /\ p \in DOMAIN servers'
    /\ servers'[p].next_retry_time > servers[p].next_retry_time

(* a step in which the listener task on port p binds its socket *)
BindSucceeds(p) ==
    /\ has_server(p) /\ p \in DOMAIN servers'
    /\ servers[p].listener = "spawned"
    /\ servers'[p].listener = "accepting"

(* C25, amended: next_retry_time is assigned only by the step that sets    *)
(* the status to Retrying, to RETRY_DELAY_SECONDS from now, and it is      *)
(* cleared, with retry_count, whenever a bind succeeds.                    *)
C25_RetryTimeAssignedWithRetrying ==
    [][\A p \in MainPorts :
          /\ RetryTimeAssigned(p) =>
                /\ servers'[p].status = "Retrying"
                /\ servers'[p].next_retry_time = RETRY_DELAY_SECONDS
          /\ BindSucceeds(p) =>
                /\ servers'[p].next_retry_time = NoTime
                /\ servers'[p].retry_count = 0]_vars

(* a bind has just failed: the retry is scheduled RETRY_DELAY_SECONDS      *)
(* ahead and the status is Retrying                                        *)
C25_Witness ==
    \E p \in MainPorts :
        /\ has_server(p)
        /\ servers[p].status = "Retrying"
        /\ servers[p].listener = "finished"
        /\ servers[p].next_retry_time = RETRY_DELAY_SECONDS
        /\ servers[p].retry_count = 1
        /\ servers[p].last_error = ErrBindFailed
        /\ lastOp = NoOp

(* C26: the reconciliation pass moves a Retrying server to Starting only   *)
(* when its next_retry_time, scheduled RETRY_DELAY_SECONDS after the       *)
(* failed attempt, has been reached.                                       *)
C26_NoRetryBeforeTime ==
    [][\A p \in MainPorts :
          /\ (/\ changed
              /\ has_server(p)
              /\ servers[p].status = "Retrying"
              /\ servers'[p].status = "Starting")
                => /\ servers[p].next_retry_time # NoTime
                   /\ servers[p].next_retry_time <= 0
          /\ (/\ has_server(p) /\ p \in DOMAIN servers'
              /\ servers'[p].retry_count > servers[p].retry_count)
                => servers'[p].next_retry_time = RETRY_DELAY_SECONDS]_vars

(* the pass has started the retry of a server whose retry time was reached *)
C26_Witness ==
    \E p \in MainPorts :
        /\ has_server(p)
        /\ ~dirty
        /\ lastOp = NoOp
        /\ servers[p].status = "Starting"
        /\ servers[p].listener = "spawned"
        /\ servers[p].retry_count = 1
        /\ servers[p].next_retry_time = 0

(* C27: a bind failure inside the listener task is not returned to the     *)
(* caller: start_server answers Ok although the port is taken, and the     *)
(* failure arrives in a later step of the task, which records an error in  *)
(* last_error and moves the Starting server to Retrying when the error is  *)
(* bind-class and retry_count is below the cap, to Failed with 'Max retry  *)
(* attempts reached' when retry_count is already at the cap, and to Failed *)
(* when the error is not bind-class.  No step of the model produces an     *)
(* error that is not bind-class (the sources in the code are failed world  *)
(* accesses), so that case is stated for the completion handling applied   *)
(* to the reachable Starting servers.                                      *)
C27_BindFailureNotReturned ==
    /\ [][\A p \in MainPorts :
            /\ (/\ lastOp' = Op("start_server", p, lastOp'.res)
                /\ has_server(p)
                /\ ~contains_server_task(servers[p])
                /\ busy[p])
                  => /\ lastOp'.res = "Ok"
                     /\ servers'[p].status = "Starting"
                     /\ servers'[p].last_error = None
            /\ (FailedAttempt(p) /\ servers[p].status = "Starting")
                  => /\ lastOp' = NoOp
                     /\ IF servers[p].retry_count < MAX_RETRY_ATTEMPTS
                        THEN /\ servers'[p].status = "Retrying"
                             /\ servers'[p].last_error = ErrBindFailed
                             /\ servers'[p].retry_count = servers[p].retry_count + 1
                        ELSE /\ servers'[p].status = "Failed"
                             /\ servers'[p].last_error = ErrMaxRetry
                             /\ servers'[p].retry_count = servers[p].retry_count]_vars
    /\ [](\A p \in DOMAIN servers :
            servers[p].listener = "spawned" =>
                LET r == run_failed(servers[p], ErrNoServer)
                IN  /\ r.status = "Failed"
                    /\ r.last_error = ErrNoServer
                    /\ r.retry_count = servers[p].retry_count
                    /\ r.next_retry_time = servers[p].next_retry_time)

(* an attempt started by the caller at the cap has failed in its task *)
C27_Witness ==
    \E p \in MainPorts :
        /\ has_server(p)
        /\ busy[p]
        /\ lastOp = NoOp
        /\ servers[p].status = "Failed"
        /\ servers[p].listener = "finished"
        /\ servers[p].last_error = ErrMaxRetry
        /\ servers[p].retry_count = MAX_RETRY_ATTEMPTS

(* the accept loop of the server on p returns normally: it has read the    *)
(* shutdown flag at the top of an iteration                                *)
AcceptLoopReturns(p) ==
    /\ has_server(p) /\ p \in DOMAIN servers'
    /\ shutdown_requested(servers[p].status)
    /\ servers[p].listener \in {"accepting", "yielded"}
    /\ servers'[p].listener = "finished"

(* C28: when the accept loop returns normally because it observed the      *)
(* shutdown flag, the status stays what it was, Shutdown or ShuttingDown.  *)
C28_ReturnKeepsStatus ==
    [][\A p \in MainPorts :
          AcceptLoopReturns(p) => servers'[p].status = servers[p].status]_vars

(* C29: in every reachable state a Retrying or Failed server has a         *)
(* last_error; every start attempt clears last_error before it runs; and   *)
(* a failed bind attempt never leaves last_error empty.                    *)
C29_FailureIsRecorded ==
    /\ [](\A p \in DOMAIN servers :
            servers[p].status \in {"Retrying", "Failed"} => servers[p].last_error # None)
    /\ [][\A p \in DOMAIN servers :
            /\ (/\ p \in DOMAIN servers'
                /\ servers[p].listener # "spawned"
                /\ servers'[p].listener = "spawned")
                  => /\ servers'[p].last_error = None
                     /\ servers'[p].status = "Starting"
            /\ FailedAttempt(p) => servers'[p].last_error # None]_vars

(* a retry that the reconciliation pass started after a recorded failure   *)
(* runs with an empty last_error                                           *)
C29_Witness ==
    \E p \in MainPorts :
        /\ has_server(p)
        /\ servers[p].status = "Starting"
        /\ servers[p].listener = "spawned"
        /\ servers[p].last_error = None
        /\ servers[p].retry_count > 0
        /\ servers[p].next_retry_time # NoTime
        /\ busy[p]

(* the fields of the record that describe the health of the server *)
health(s) == <<s.status, s.last_error, s.retry_count, s.next_retry_time>>

(* C30: an error returned by accept and the end of a connection task,      *)
(* failed or not, leave status, last_error and retry_count as they were:   *)
(* after the accept error the listener task is alive and goes on to the    *)
(* next iteration of its loop, and the connection task only removes its    *)
(* own entry.                                                              *)
C30_ConnectionFailuresIsolated ==
    [][\A p \in MainPorts :
          /\ AcceptError(p) =>
                /\ health(servers'[p]) = health(servers[p])
                /\ servers'[p].listener = "yielded"
                /\ servers'[p].conns = servers[p].conns
          /\ \A id \in ConnIds :
                ConnFinish(p, id) =>
                    /\ health(servers'[p]) = health(servers[p])
                    /\ servers'[p].listener = servers[p].listener
                    /\ servers'[p].conns[id].pc = NoTask]_vars

(* accept has failed on a running server that has accepted no connection   *)
(* yet: the listener is on its way to the next iteration                   *)
C30_Witness ==
    \E p \in MainPorts :
        /\ has_server(p)
        /\ servers[p].status = "Running"
        /\ servers[p].listener = "yielded"
        /\ servers[p].total = 0
        /\ servers[p].conns = NoConns
        /\ servers[p].last_error = None
        /\ lastOp = NoOp

(* C31: the identity Connection(id) given to an accepted connection is not *)
(* the identity of an entry that is still in the task store of the server: *)
(* registering the connection task replaces no connection in flight.       *)
C31_ConnectionIdsDistinct ==
    [][\A p \in MainPorts :
          Accept(p) =>
              servers[p].conns[next_connection_id(servers[p])] = NoConn]_vars

(* C32: a connection is counted in active_connections for as long as its   *)
(* task is serving it: active_connections(p) is 0 only when no connection  *)
(* of the server on p is being served.                                     *)
C32_ServingIsCounted ==
    \A p \in DOMAIN servers :
        active_connections(p) = 0 => ~InFlight(p)

(* C33: on a port that is not in the map, graceful_shutdown and            *)
(* graceful_shutdown_with_timeout leave the map, the monitors and the      *)
(* awaited call as they are, so no monitor is spawned, and                 *)
(* graceful_shutdown_server returns false and leaves them as they are too. *)
C33_AbsentPortShutdownNoOp ==
    [][\A p \in MainPorts :
          (/\ ~has_server(p)
           /\ lastOp'.port = p
           /\ lastOp'.op \in {"graceful_shutdown", "graceful_shutdown_with_timeout",
                              "graceful_shutdown_server"})
            => /\ UNCHANGED <<servers, monitors, awaited, busy>>
               /\ lastOp'.op = "graceful_shutdown_server" => lastOp'.res = "false"]_vars

(* the awaited shutdown has answered false on a port without a server *)
C33_Witness ==
    \E p \in MainPorts :
        /\ ~has_server(p)
        /\ monitors[p] = <<>>
        /\ awaited = Idle
        /\ lastOp = Op("graceful_shutdown_server", p, "false")

(* C34: graceful_shutdown_with_timeout on an existing server leaves its    *)
(* status ShuttingDown; on a server that is ShuttingDown already it leaves *)
(* the record as it is; and graceful_shutdown never turns ShuttingDown     *)
(* into Shutdown: it leaves such a record as it is.                        *)
C34_ShuttingDownIsKept ==
    [][\A p \in MainPorts :
          has_server(p) =>
              /\ lastOp' = Op("graceful_shutdown_with_timeout", p, "none") =>
                    /\ p \in DOMAIN servers'
                    /\ servers'[p].status = "ShuttingDown"
                    /\ servers[p].status = "ShuttingDown" => servers'[p] = servers[p]
              /\ (/\ lastOp' = Op("graceful_shutdown", p, "none")
                  /\ servers[p].status = "ShuttingDown") =>
                    /\ p \in DOMAIN servers'
                    /\ servers'[p] = servers[p]]_vars

(* the timed shutdown has been requested twice for a server: two monitors  *)
(* are pending and the record is ShuttingDown                              *)
C34_Witness ==
    \E p \in MainPorts :
        /\ has_server(p)
        /\ servers[p].status = "ShuttingDown"
        /\ Len(monitors[p]) = 2
        /\ lastOp = Op("graceful_shutdown_with_timeout", p, "none")

(* a listener task is spawned for the server on port p in this step *)
ListenerSpawned(p) ==
    /\ p \in DOMAIN servers'
    /\ servers'[p].listener = "spawned"
    /\ \/ ~has_server(p)
       \/ servers[p].listener # "spawned"
       \/ lastOp' = Op("start_server", p, "Ok")

(* C35: at most one accept-loop task exists for a port: a listener task is *)
(* spawned, by start_server or by the reconciliation pass, only for a      *)
(* server whose task store holds no listener entry, finished or not; the   *)
(* tasks of a record that was stopped or removed are dropped with it.      *)
C35_OneListenerPerPort ==
    [][\A p \in MainPorts :
          /\ ListenerSpawned(p) =>
                /\ has_server(p)
                /\ ~contains_server_task(servers[p])
          /\ (has_server(p) /\ lastOp'.op \in {"stop_server", "stop_all", "remove_server"}
                /\ lastOp'.port \in {p, 0})
                => (p \in DOMAIN servers' => ~contains_server_task(servers'[p]))]_vars

(* a server that was stopped while it was listening has been started again *)
C35_Witness ==
    \E p \in MainPorts :
        /\ has_server(p)
        /\ servers[p].listener = "spawned"
        /\ servers[p].status = "Starting"
        /\ servers[p].retry_count = 0
        /\ servers[p].total > 0
        /\ lastOp = Op("start_server", p, "Ok")

(* the listener task of the server on p completes its bind in this step    *)
(* while a graceful shutdown is requested for the server                   *)
BindCompletesUnderShutdown(p) ==
    /\ has_server(p) /\ p \in DOMAIN servers'
    /\ shutdown_requested(servers[p].status)
    /\ servers[p].listener = "spawned"
    /\ test_bind(p)
    /\ servers'[p].listener \in {"accepting", "finished"}

(* C36: a graceful shutdown requested while the server is Starting is not  *)
(* lost: when the bind completes the server still reports                  *)
(* shutdown_requested and its accept loop ends without accepting.          *)
C36_ShutdownWhileStartingKept ==
    [][\A p \in MainPorts :
          BindCompletesUnderShutdown(p) =>
              /\ shutdown_requested(servers'[p].status)
              /\ servers'[p].listener = "finished"]_vars

(* the record on p was added by the last operation of the caller while a   *)
(* monitor spawned for an earlier record of the port is still pending      *)
NewRecordOldMonitor(p) ==
    /\ has_server(p)
    /\ lastOp = Op("add_server", p, "Ok")
    /\ monitors[p] # <<>>

(* C37: a shutdown monitor removes only the record that was on the port    *)
(* when the monitor was spawned: its poll leaves alone a record that was   *)
(* added to the port after that one was removed.                           *)
C37_MonitorSparesNewRecord ==
    [][\A p \in MainPorts :
          (/\ NewRecordOldMonitor(p)
           /\ \E i \in 1..MaxPendingMonitors : MonitorPoll(p, i))
            => /\ p \in DOMAIN servers'
               /\ servers'[p] = servers[p]]_vars

(* C38: stop_all and graceful_shutdown_all(T) both leave the map empty,    *)
(* so that no task of any server is tracked any more, and the map that     *)
(* graceful_shutdown_all returns has one entry, true or false, for every   *)
(* port that was in the map when it was called, and no other entry.        *)
C38_AllStoppedAndReported ==
    [][/\ lastOp' = Op("stop_all", 0, "none") =>
            /\ Cardinality(DOMAIN servers') = 0
            /\ \A p \in Ports : tracked_tasks(servers', p) = 0
       /\ (Free /\ lastOp'.op = "graceful_shutdown_all" /\ awaited'.pc # "idle") =>
            awaited'.called = DOMAIN servers
       /\ lastOp' = Op("graceful_shutdown_all", 0, "returned") =>
            /\ Cardinality(DOMAIN servers') = 0
            /\ \A p \in Ports : tracked_tasks(servers', p) = 0
            /\ awaited'.called = (IF Free THEN DOMAIN servers ELSE awaited.called)
            /\ DOMAIN awaited'.results = awaited'.called
            /\ \A p \in awaited'.called : awaited'.results[p] \in {"true", "false"}]_vars

(* graceful_shutdown_all has returned the results of two servers *)
C38_Witness ==
    /\ lastOp = Op("graceful_shutdown_all", 0, "returned")
    /\ servers = <<>>
    /\ awaited.called = Ports
    /\ DOMAIN awaited.results = Ports

(* C39: cleanup_finished_tasks removes exactly the entries whose task has  *)
(* finished and keeps every other entry as it is; applied again it changes *)
(* nothing; insert(id, handle) leaves the new handle under id, no entry    *)
(* that was finished before the insert, and every other unfinished entry   *)
(* as it was.                                                              *)
C39_TaskStoreReaping ==
    /\ [](LET e == store.entries
              c == store_cleanup_finished_tasks(e)
          IN  /\ store_keys(c) = {k \in store_keys(e) : ~is_finished(e[k])}
              /\ \A k \in store_keys(c) : c[k] = e[k]
              /\ store_cleanup_finished_tasks(c) = c
              /\ store_finished_task_count(c) = 0)
    /\ [][/\ StoreCleanup =>
                /\ store'.entries = store_cleanup_finished_tasks(store.entries)
                /\ store_cleanup_finished_tasks(store'.entries) = store'.entries
          /\ \A k \in TaskTypes :
                StoreInsert(k) =>
                    /\ store'.entries[k] = [task |-> store.next, fin |-> FALSE]
                    /\ \A j \in TaskTypes \ {k} :
                          store'.entries[j] =
                              IF is_finished(store.entries[j]) THEN NoEntry
                              ELSE store.entries[j]
                    /\ store_finished_task_count(store'.entries) = 0]_vars

(* an insert has reaped a finished entry and kept an unfinished one beside *)
(* the new handle                                                          *)
C39_Witness ==
    /\ store.next = 4
    /\ store.reaped = 1
    /\ store.entries[<<"Server", 0>>] = NoEntry
    /\ store.entries[<<"Connection", 0>>] = [task |-> 2, fin |-> FALSE]
    /\ store.entries[<<"Connection", 1>>] = [task |-> 3, fin |-> FALSE]

====
